---- MODULE Spec2Model ----
(***************************************************************************)
(* Cart synchronisation of the storefront's client state store (useStore,  *)
(* a zustand store wrapped in the persist middleware).  The store's async  *)
(* handlers are modelled as operations that run from one await to the      *)
(* next in a single step; the server (behind apiClient) handles each       *)
(* request in a step of its own, so that requests and responses of         *)
(* overlapping operations complete in any order.  Further specifications   *)
(* cover checkout, the read operations of the store, getCartTotal, the      *)
(* product form of the admin table, the personalization dialog of the       *)
(* product card and the view switch of the home page.                      *)
(***************************************************************************)
EXTENDS Integers, Sequences, FiniteSets, TLC

\* ---------------------------------------------------------------- bounds
MaxItemId == 2      \* the server assigns cart line ids 1..MaxItemId
MaxQty == 2         \* largest quantity the server merges a line up to
MaxCalls == 2       \* store operations dispatched in one behaviour
MaxLines == 2       \* lines of a cart that getCartTotal is applied to
MaxPosQty == 3      \* largest quantity of a line of the point-of-sale cart

Slots == {1, 2}                 \* operations that may be in flight together
ProductIds == {1, 2}            \* backend product ids of the catalogue
Extras == {0, 5}                \* extra price of a personalization (0: none)
AddQuantities == {1, 2}         \* quantities passed to addToCart
NewQuantities == {0, 1, 2}      \* quantities passed to updateCartQuantity
Roles == {"customer", "admin", "cashier"}
NoUser == "null"

VARIABLES
    currentUser,    \* StoreState.currentUser
    userInfo,       \* StoreState.userInfo
    cart,           \* StoreState.cart, the local cart mirror
    persisted,      \* localStorage['teddylove-store'], written by persist
    legacyKey,      \* localStorage['useStore'], the key the scrub code reads
    serverCart,     \* the authoritative cart behind apiClient
    nextItemId,     \* next cart line id the server assigns
    ops,            \* the store operations in flight, by slot
    calls,          \* operations dispatched so far
    view,           \* what the home page (Index) renders
    products,       \* StoreState.products
    categories,     \* StoreState.categories
    dashboardStats, \* StoreState.dashboardStats
    recentOrders,   \* StoreState.recentOrders
    topProducts,    \* StoreState.topProducts
    allOrders,      \* StoreState.allOrders
    ordersTotalPages,   \* StoreState.ordersTotalPages
    ordersCurrentPage,  \* StoreState.ordersCurrentPage
    reads,          \* the read operation of the store that ended last
    returned,       \* what getCartTotal returned last
    newProduct,     \* ProductManagementTable: the form state newProduct
    selectedImage,  \* ProductManagementTable: whether an image file is selected
    details,        \* ProductCard: the personalization options chosen
    page,           \* the component handler in flight and the calls it made
    authToken,      \* whether localStorage holds 'auth_token'
    posCart,        \* StoreState.posCart
    posCall,        \* the point-of-sale operation called last
    profile         \* the Profile page: route, isLoading, orders, requests

\* the cart and session part of the store, with the server behind it
cartVars == <<currentUser, userInfo, cart, persisted, legacyKey, serverCart,
              nextItemId, ops, calls>>

\* the cached read results of the store
cacheVars == <<products, categories, dashboardStats, recentOrders, topProducts,
               allOrders, ordersTotalPages, ordersCurrentPage>>

\* the state of the components
formVars == <<newProduct, selectedImage, details, page>>

\* the point-of-sale cart and the profile page
deskVars == <<posCart, posCall, profile>>

\* what the cart operations never touch
pageVars == <<cacheVars, reads, returned, formVars, deskVars>>

vars == <<cartVars, view, authToken, pageVars>>

\* ------------------------------------------------------- pure functions
\* productId.toString() of convertProductToUI / syncCartWithBackend
ToStr(n) == CASE n = 1 -> "1" [] n = 2 -> "2" [] OTHER -> "NaN"

\* parseInt(product.id) of addToCart
ParseInt(s) == CASE s = "1" -> 1 [] s = "2" -> 2 [] OTHER -> 0

\* unit price of a catalogue product
PriceOf(p) == 10 * p

\* cart.find(item => item.id === productId): index of the first match, 0 if none
Find(c, id) ==
    IF \E i \in DOMAIN c : c[i].id = id
    THEN CHOOSE i \in DOMAIN c : c[i].id = id /\ \A j \in 1..(i-1) : c[j].id # id
    ELSE 0

\* mutant: the lookup is taken for a backend id
HasLine(c, id) == Find(c, id) # 0

\* cartItem && 'backendId' in cartItem && cartItem.backendId
HasBackendId(c, id) == Find(c, id) # 0 /\ c[Find(c, id)].backendId # 0

\* mutant: the resolving resync is never asked for
NeverLacks(c, id) == FALSE

\* mutant: a missing line is taken for one without backendId
LacksOrMissing(c, id) == Find(c, id) = 0 \/ c[Find(c, id)].backendId = 0

\* cartItem && (!('backendId' in cartItem) || !cartItem.backendId)
LacksBackendId(c, id) == Find(c, id) # 0 /\ c[Find(c, id)].backendId = 0

\* state.cart.filter(item => item.id !== productId)
FilterOut(c, id) == SelectSeq(c, LAMBDA l : l.id # id)

\* state.cart.map(item => item.id === productId ? { ...item, quantity } : item)
MapQuantity(c, id, q) ==
    [i \in DOMAIN c |-> IF c[i].id = id THEN [c[i] EXCEPT !.quantity = q] ELSE c[i]]

\* mutant: a quantity <= 0 is written into the line
LocalUpdateKeepLine(c, id, q) == MapQuantity(c, id, q)

\* the local update of updateCartQuantity
LocalUpdate(c, id, q) == IF q <= 0 THEN FilterOut(c, id) ELSE MapQuantity(c, id, q)

\* mutant: the conversion drops the server's line id
ToFrontendNoBackendId(item) ==
    [id |-> ToStr(item.productId),
     price |-> item.productPrice,
     quantity |-> item.quantity,
     backendId |-> 0,
     extraPrice |-> item.extraPrice,
     totalPrice |-> item.itemTotal]

\* mutant: the line total leaves out the extra price
ToFrontendBaseTotal(item) ==
    [id |-> ToStr(item.productId),
     price |-> item.productPrice,
     quantity |-> item.quantity,
     backendId |-> item.itemId,
     extraPrice |-> item.extraPrice,
     totalPrice |-> item.productPrice * item.quantity]

\* one backend cart item converted to a CartItem
ToFrontend(item) ==
    [id |-> ToStr(item.productId),
     price |-> item.productPrice,
     quantity |-> item.quantity,
     backendId |-> item.itemId,
     extraPrice |-> item.extraPrice,
     totalPrice |-> item.itemTotal]

\* mutant: the backend cart is merged into the mirror
FrontendCartMerged(bc) == cart \o [i \in DOMAIN bc |-> ToFrontend(bc[i])]

\* backendCart.map(...) of syncCartWithBackend and forceSyncCart
FrontendCart(bc) == [i \in DOMAIN bc |-> ToFrontend(bc[i])]

\* ------------------------------------------------------------ the server
ServerLine(iid, p, q, e) ==
    [itemId |-> iid, productId |-> p, quantity |-> q, productPrice |-> PriceOf(p),
     extraPrice |-> e, itemTotal |-> (PriceOf(p) + e) * q]

ServerFind(sc, iid) ==
    IF \E i \in DOMAIN sc : sc[i].itemId = iid
    THEN CHOOSE i \in DOMAIN sc : sc[i].itemId = iid
    ELSE 0

ServerRemove(sc, iid) == SelectSeq(sc, LAMBDA l : l.itemId # iid)

ServerSetQuantity(sc, iid, q) ==
    [i \in DOMAIN sc |->
        IF sc[i].itemId = iid
        THEN ServerLine(iid, sc[i].productId, q, sc[i].extraPrice)
        ELSE sc[i]]

\* ------------------------------------------------------------ operations
IdleOp ==
    [kind |-> "none", pc |-> "idle", net |-> "-", pid |-> "", qty |-> 0,
     extra |-> 0, bid |-> 0, resp |-> <<>>, result |-> "-",
     syncs |-> 0, log |-> <<>>, fetched |-> "-",
     lacked |-> FALSE, local |-> FALSE, fresh |-> FALSE, alone |-> FALSE]

Active(o) == ops[o].pc \notin {"idle", "done"}

\* the slot a newly dispatched operation takes: the lowest one not in flight
FreeSlot(o) == ~Active(o) /\ \A s \in Slots : s < o => Active(s)

\* the record of a newly dispatched operation; lacked: it is called with a
\* session for a mirror line without backendId; alone: nothing else is in flight
NewOp(k, id, q, e) ==
    [IdleOp EXCEPT !.kind = k, !.pid = id, !.qty = q, !.extra = e,
                   !.lacked = /\ k \in {"remove", "update"}
                              /\ currentUser # NoUser
                              /\ \E i \in DOMAIN cart :
                                    /\ cart[i].id = id
                                    /\ \A j \in 1..(i-1) : cart[j].id # id
                                    /\ cart[i].backendId = 0,
                   !.alone = \A s \in Slots : ~Active(s)]

\* the operations still in flight when the store is called again; the record
\* of a finished operation is kept until then
InFlight ==
    [s \in Slots |-> IF Active(s) THEN [ops[s] EXCEPT !.alone = FALSE] ELSE IdleOp]

Finish(op, res) == [op EXCEPT !.pc = "done", !.net = "-", !.result = res, !.resp = <<>>]

\* set({ cart }) under the persist middleware: the snapshot follows every set
SetCart(c) ==
    /\ cart' = c
    /\ persisted' = [persisted EXCEPT !.cart = c]
    /\ UNCHANGED <<currentUser, userInfo, view, authToken, pageVars>>

KeepStore ==
    UNCHANGED <<currentUser, userInfo, cart, persisted, view, authToken, pageVars>>

\* mutant: the two role tests of Index are exchanged
IndexViewSwapped(user) ==
    IF user = "cashier" THEN "AdminDashboard"
    ELSE IF user = "admin" THEN "POSSystem"
    ELSE "storefront"

\* Index: the view is chosen by currentUser at every render
IndexView(user) ==
    IF user = "admin" THEN "AdminDashboard"
    ELSE IF user = "cashier" THEN "POSSystem"
    ELSE "storefront"

\* the product form as useState creates it and as handleAddProduct resets it
EmptyProduct == [name |-> "", description |-> "", price |-> 0, stockQuantity |-> 0]

IdlePage ==
    [handler |-> "none", pc |-> "idle", log |-> <<>>, result |-> "-", n |-> 0,
     isSubmitting |-> FALSE, uploadedUrl |-> "-"]

NoTotal == -1

NoPosCall == [name |-> "none", id |-> "", qty |-> 0, n |-> 0]

\* the Profile page before it is opened; isLoading starts true
ProfileClosed ==
    [route |-> "/", isLoading |-> TRUE, orders |-> <<>>, seen |-> "-",
     sent |-> 0, pending |-> 0, answer |-> "-"]

\* the store's read caches and the components as they are created
ComponentsInit ==
    /\ products = <<>> /\ categories = <<>>
    /\ dashboardStats = "null"
    /\ recentOrders = <<>> /\ topProducts = <<>> /\ allOrders = <<>>
    /\ ordersTotalPages = 0 /\ ordersCurrentPage = 0
    /\ reads = [name |-> "none", ok |-> TRUE, n |-> 0]
    /\ returned = NoTotal
    /\ newProduct = EmptyProduct
    /\ selectedImage = FALSE
    /\ details = {}
    /\ page = IdlePage
    /\ posCart = <<>>
    /\ posCall = NoPosCall

\* the token is stored with the session, the Profile page is not open
PagesInit ==
    /\ ComponentsInit
    /\ authToken = (currentUser # NoUser)
    /\ profile = ProfileClosed

\* The store as persist rehydrates it on load: no session and an empty
\* cart, or a customer session whose snapshot is empty or holds a line that
\* has no backendId (CartItem.backendId is optional).  The key 'useStore'
\* is written by nothing in the store, so it is absent.
Init ==
    /\ currentUser \in {NoUser, "customer"}
    /\ userInfo = currentUser
    /\ cart \in IF currentUser = NoUser
                THEN {<<>>}
                ELSE {<<>>,
                      <<[id |-> "1", price |-> PriceOf(1), quantity |-> 1,
                         backendId |-> 0, extraPrice |-> 0,
                         totalPrice |-> PriceOf(1)]>>}
    /\ persisted = [currentUser |-> currentUser, userInfo |-> userInfo, cart |-> cart]
    /\ legacyKey = "absent"
    /\ serverCart \in {<<>>, <<ServerLine(1, 1, 1, 0)>>}
    /\ nextItemId = IF serverCart = <<>> THEN 1 ELSE 2
    /\ ops = [o \in Slots |-> IdleOp]
    /\ calls = 0
    /\ view = IndexView(currentUser)
    /\ PagesInit

\* the requests an operation has sent to apiClient so far, by name
Sent(op, name) == {i \in DOMAIN op.log : op.log[i][1] = name}

Dispatch(o) == calls < MaxCalls /\ FreeSlot(o) /\ calls' = calls + 1

\* mutant: the session check of syncCartWithBackend is missing
CallSyncAlways(op, stage) ==
    [op EXCEPT !.syncs = @ + 1, !.pc = stage, !.net = "req",
               !.log = Append(@, <<"getCartItems">>)]

\* get().syncCartWithBackend() up to its await: skipped without a session,
\* otherwise getCartItems is requested and the caller waits at stage
CallSync(op, stage) ==
    IF currentUser = NoUser
    THEN [op EXCEPT !.syncs = @ + 1]
    ELSE [op EXCEPT !.syncs = @ + 1, !.pc = stage, !.net = "req",
                    !.log = Append(@, <<"getCartItems">>)]

\* localStorage scrub of clearCart: reads the key 'useStore'; a missing key
\* or an exception leaves the storage as it is
Scrub ==
    \E throws \in BOOLEAN :
        legacyKey' = IF ~throws /\ legacyKey # "absent" THEN "scrubbed" ELSE legacyKey

\* ------------------------------------------------------ login and logout
\* login / register from the successful answer of the server on; a failed
\* one sets nothing.  apiClient stores the token with a successful login
\* and drops it in logout.
Login(r) ==
    /\ calls < MaxCalls /\ calls' = calls + 1
    /\ currentUser' = r
    /\ userInfo' = r
    /\ persisted' = [persisted EXCEPT !.currentUser = r, !.userInfo = r]
    /\ ops' = InFlight
    /\ view' = IndexView(r)
    /\ authToken' = TRUE
    /\ UNCHANGED <<cart, legacyKey, serverCart, nextItemId, pageVars>>

\* mutant: logout leaves the cart mirror alone
LogoutKeepsCart ==
    /\ calls < MaxCalls /\ calls' = calls + 1
    /\ currentUser' = NoUser
    /\ userInfo' = NoUser
    /\ persisted' = [persisted EXCEPT !.currentUser = NoUser, !.userInfo = NoUser]
    /\ ops' = InFlight
    /\ view' = IndexView(NoUser)
    /\ authToken' = FALSE
    /\ UNCHANGED <<cart, legacyKey, serverCart, nextItemId, pageVars>>

\* apiClient.logout(); set({ currentUser: null, userInfo: null, cart: [] })
Logout ==
    /\ calls < MaxCalls /\ calls' = calls + 1
    /\ currentUser' = NoUser
    /\ userInfo' = NoUser
    /\ cart' = <<>>
    /\ persisted' = [currentUser |-> NoUser, userInfo |-> NoUser, cart |-> <<>>]
    /\ ops' = InFlight
    /\ view' = IndexView(NoUser)
    /\ authToken' = FALSE
    /\ UNCHANGED <<legacyKey, serverCart, nextItemId, pageVars>>

\* -------------------------------------------------------------- addToCart
\* mutant: the authentication check of addToCart is missing
AddToCartUnchecked(o, p, q, e) ==
    /\ Dispatch(o)
    /\ LET op == NewOp("add", ToStr(p), q, e) IN
       ops' = [InFlight EXCEPT ![o] =
                  [op EXCEPT !.pc = "add", !.net = "req",
                             !.log = <<<<"addToCart", ParseInt(op.pid), q>>>>]]
    /\ KeepStore
    /\ UNCHANGED <<legacyKey, serverCart, nextItemId>>

\* mutant: addToCart puts its cartItem into the mirror before the request
AddToCartInsertsLocally(o, p, q, e) ==
    /\ Dispatch(o)
    /\ LET op == NewOp("add", ToStr(p), q, e) IN
       IF currentUser = NoUser
       THEN /\ KeepStore
            /\ ops' = [InFlight EXCEPT ![o] = Finish(op, "error")]
       ELSE /\ SetCart(Append(cart,
                              [id |-> ToStr(p), price |-> PriceOf(p), quantity |-> q,
                               backendId |-> 0, extraPrice |-> e,
                               totalPrice |-> (PriceOf(p) + e) * q]))
            /\ ops' = [InFlight EXCEPT ![o] =
                          [op EXCEPT !.pc = "add", !.net = "req",
                                     !.log = <<<<"addToCart", ParseInt(op.pid), q>>>>]]
    /\ UNCHANGED <<legacyKey, serverCart, nextItemId>>

\* up to the await of the add request, or to the throw without a session
AddToCart(o, p, q, e) ==
    /\ Dispatch(o)
    /\ LET op == NewOp("add", ToStr(p), q, e) IN
       ops' = [InFlight EXCEPT ![o] =
                  IF currentUser = NoUser
                  THEN Finish(op, "error")
                  ELSE [op EXCEPT !.pc = "add", !.net = "req",
                                  !.log = <<<<"addToCart", ParseInt(op.pid), q>>>>]]
    /\ KeepStore
    /\ UNCHANGED <<legacyKey, serverCart, nextItemId>>

\* mutant: a failed add request is swallowed
AddRespSwallowed(o) ==
    /\ ops[o].pc = "add" /\ ops[o].net \in {"ok", "fail"}
    /\ ops' = [ops EXCEPT ![o] =
                  IF ops[o].net = "fail"
                  THEN Finish(ops[o], "ok")
                  ELSE [ops[o] EXCEPT !.pc = "settle", !.net = "-"]]
    /\ KeepStore
    /\ UNCHANGED <<legacyKey, serverCart, nextItemId, calls>>

\* the add request has been answered: a failure is rethrown, a success is
\* followed by the 500 ms settling delay
AddResp(o) ==
    /\ ops[o].pc = "add" /\ ops[o].net \in {"ok", "fail"}
    /\ ops' = [ops EXCEPT ![o] =
                  IF ops[o].net = "fail"
                  THEN Finish(ops[o], "error")
                  ELSE [ops[o] EXCEPT !.pc = "settle", !.net = "-"]]
    /\ KeepStore
    /\ UNCHANGED <<legacyKey, serverCart, nextItemId, calls>>

\* the settling delay of addToCart, removeFromCart or updateCartQuantity has
\* elapsed: the closing resync is called
Settled(o) ==
    /\ ops[o].pc = "settle"
    /\ LET op == CallSync(ops[o], "sync") IN
       ops' = [ops EXCEPT ![o] = IF op.pc = "sync" THEN op ELSE Finish(op, "ok")]
    /\ KeepStore
    /\ UNCHANGED <<legacyKey, serverCart, nextItemId, calls>>

\* ------------------------------------- syncCartWithBackend, forceSyncCart
SyncCartWithBackend(o, k) ==
    /\ Dispatch(o)
    /\ LET op == CallSync(NewOp(k, "", 0, 0), "sync") IN
       ops' = [InFlight EXCEPT ![o] = IF op.pc = "sync" THEN op ELSE Finish(op, "ok")]
    /\ KeepStore
    /\ UNCHANGED <<legacyKey, serverCart, nextItemId>>

\* getCartItems has been answered: on success the mirror is replaced by the
\* converted backend cart, on failure the error is logged and nothing is set
SyncResp(o) ==
    /\ ops[o].pc = "sync" /\ ops[o].net \in {"ok", "fail"}
    /\ IF ops[o].net = "ok" THEN SetCart(FrontendCart(ops[o].resp)) ELSE KeepStore
    /\ ops' = [ops EXCEPT ![o] = Finish([ops[o] EXCEPT !.fetched = ops[o].net], "ok")]
    /\ UNCHANGED <<legacyKey, serverCart, nextItemId, calls>>

\* --------------------------------------- removeFromCart, updateCartQuantity
\* the request removeFromCart / updateCartQuantity sends for backend id b
MutRequest(op, b) ==
    IF op.kind = "remove" THEN <<"removeFromCart", b>>
                          ELSE <<"updateCartItem", b, op.qty>>

\* mutant: the local fallback is missing
LocalChangeNone(op, c) == c

\* the change removeFromCart / updateCartQuantity makes to the mirror alone
LocalChange(op, c) ==
    IF op.kind = "remove" THEN FilterOut(c, op.pid) ELSE LocalUpdate(c, op.pid, op.qty)

\* from the lookup of cartItem to the first await, or to the end
Mutate(o, k, id, q) ==
    /\ Dispatch(o)
    /\ LET op == NewOp(k, id, q, 0) IN
       IF currentUser = NoUser
       THEN /\ SetCart(LocalChange(op, cart))
            /\ ops' = [InFlight EXCEPT ![o] = Finish([op EXCEPT !.local = TRUE], "ok")]
       ELSE IF LacksBackendId(cart, id)
       THEN /\ KeepStore
            /\ ops' = [InFlight EXCEPT ![o] = CallSync(op, "presync")]
       ELSE IF HasBackendId(cart, id)
       THEN /\ KeepStore
            /\ LET b == cart[Find(cart, id)].backendId IN
               ops' = [InFlight EXCEPT ![o] =
                          [op EXCEPT !.pc = "mut", !.net = "req", !.bid = b,
                                     !.log = <<MutRequest(op, b)>>]]
       ELSE /\ SetCart(LocalChange(op, cart))
            /\ ops' = [InFlight EXCEPT ![o] = Finish([op EXCEPT !.local = TRUE], "ok")]
    /\ UNCHANGED <<legacyKey, serverCart, nextItemId>>

RemoveFromCart(o, id) == Mutate(o, "remove", id, 0)

UpdateCartQuantity(o, id, q) == Mutate(o, "update", id, q)

\* the resync that was to resolve the backendId has been answered: cartItem
\* is looked up again, then the server call is made or the change is local
PresyncResp(o) ==
    /\ ops[o].pc = "presync" /\ ops[o].net \in {"ok", "fail"}
    /\ LET op == [ops[o] EXCEPT !.fetched = ops[o].net, !.resp = <<>>]
           c == IF ops[o].net = "ok" THEN FrontendCart(ops[o].resp) ELSE cart
       IN IF HasBackendId(c, op.pid)
          THEN /\ SetCart(c)
               /\ LET b == c[Find(c, op.pid)].backendId IN
                  ops' = [ops EXCEPT ![o] =
                             [op EXCEPT !.pc = "mut", !.net = "req", !.bid = b,
                                        !.log = Append(@, MutRequest(op, b))]]
          ELSE /\ SetCart(LocalChange(op, c))
               /\ ops' = [ops EXCEPT ![o] = Finish([op EXCEPT !.local = TRUE], "ok")]
    /\ UNCHANGED <<legacyKey, serverCart, nextItemId, calls>>

\* the server call has been answered: a success is followed by the 300 ms
\* delay, a failure by the local fallback of the catch block
MutResp(o) ==
    /\ ops[o].pc = "mut" /\ ops[o].net \in {"ok", "fail"}
    /\ IF ops[o].net = "ok"
       THEN /\ KeepStore
            /\ ops' = [ops EXCEPT ![o] = [ops[o] EXCEPT !.pc = "settle", !.net = "-"]]
       ELSE /\ SetCart(LocalChange(ops[o], cart))
            /\ ops' = [ops EXCEPT ![o] = Finish([ops[o] EXCEPT !.local = TRUE], "ok")]
    /\ UNCHANGED <<legacyKey, serverCart, nextItemId, calls>>

\* -------------------------------------------------------------- clearCart
\* mutant: clearCart relies on the scrub alone
ClearScrubOnly == KeepStore /\ Scrub

\* set({ cart: [] }) and the scrub, the part of clearCart after the try
ClearLocal == SetCart(<<>>) /\ Scrub

ClearCart(o) ==
    /\ Dispatch(o)
    /\ LET op == NewOp("clear", "", 0, 0) IN
       IF currentUser = NoUser
       THEN /\ ClearLocal
            /\ ops' = [InFlight EXCEPT ![o] = Finish(op, "ok")]
       ELSE /\ KeepStore /\ UNCHANGED legacyKey
            /\ ops' = [InFlight EXCEPT ![o] =
                          [op EXCEPT !.pc = "clear", !.net = "req",
                                     !.log = <<<<"clearCart">>>>]]
    /\ UNCHANGED <<serverCart, nextItemId>>

ClearResp(o) ==
    /\ ops[o].pc = "clear" /\ ops[o].net \in {"ok", "fail"}
    /\ ClearLocal
    /\ ops' = [ops EXCEPT ![o] = Finish(ops[o], "ok")]
    /\ UNCHANGED <<serverCart, nextItemId, calls>>

\* ------------------------------------------------- login, register in full
\* the roles the server answers with, and an answer without a role
ServerRoles == {"CUSTOMER", "Admin", "cashier"}
NoRole == "undefined"

\* response.role.toLowerCase()
ToLowerCase(role) ==
    CASE role = "CUSTOMER" -> "customer"
      [] role = "Admin" -> "admin"
      [] OTHER -> role

\* login / register up to the await of the request
LoginCall(o, k) ==
    /\ Dispatch(o)
    /\ ops' = [InFlight EXCEPT ![o] =
                  [NewOp(k, "", 0, 0) EXCEPT !.pc = "auth", !.net = "req",
                                             !.log = <<<<k>>>>]]
    /\ KeepStore
    /\ UNCHANGED <<legacyKey, serverCart, nextItemId>>

\* mutant: a failed login ends the session instead of throwing
AuthRespDropsSession(o) ==
    /\ ops[o].pc = "auth" /\ ops[o].net \in {"ok", "fail"}
    /\ LET ok == ops[o].net = "ok" /\ ops[o].resp[1] # NoRole
           user == IF ok THEN ToLowerCase(ops[o].resp[1]) ELSE NoUser
       IN /\ currentUser' = user
          /\ userInfo' = user
          /\ persisted' = [persisted EXCEPT !.currentUser = user, !.userInfo = user]
          /\ view' = IndexView(user)
          /\ authToken' = ok
          /\ ops' = [ops EXCEPT ![o] = Finish(ops[o], "ok")]
    /\ UNCHANGED <<cart, legacyKey, serverCart, nextItemId, calls, pageVars>>

\* the request has been answered: with a role the session is set, a failed
\* request or a failing conversion is logged and rethrown
AuthResp(o) ==
    /\ ops[o].pc = "auth" /\ ops[o].net \in {"ok", "fail"}
    /\ IF ops[o].net = "ok" /\ ops[o].resp[1] # NoRole
       THEN LET user == ToLowerCase(ops[o].resp[1]) IN
            /\ currentUser' = user
            /\ userInfo' = user
            /\ persisted' = [persisted EXCEPT !.currentUser = user, !.userInfo = user]
            /\ view' = IndexView(user)
            /\ authToken' = TRUE
            /\ ops' = [ops EXCEPT ![o] = Finish(ops[o], "ok")]
            /\ UNCHANGED <<cart, pageVars>>
       ELSE /\ KeepStore
            /\ ops' = [ops EXCEPT ![o] = Finish(ops[o], "error")]
    /\ UNCHANGED <<legacyKey, serverCart, nextItemId, calls>>

\* ------------------------------------------------- the point-of-sale cart
PosProducts ==
    {[id |-> "1", price |-> 10], [id |-> "2", price |-> 20], [id |-> "3", price |-> 30]}

PosIds == {pr.id : pr \in PosProducts}

\* the record of a point-of-sale operation that has been called
PosCalled(name, id, q) == posCall' = [name |-> name, id |-> id, qty |-> q, n |-> 1 - posCall.n]

\* mutant: addToPosCart always appends a line
AddToPosCartAppends(product, q) ==
    /\ posCart' = Append(posCart, [id |-> product.id, price |-> product.price, quantity |-> q])
    /\ Len(posCart) < Cardinality(PosIds)
    /\ PosCalled("addToPosCart", product.id, q)
    /\ UNCHANGED <<cartVars, view, authToken, cacheVars, reads, returned, formVars, profile>>

\* addToPosCart: the quantity is added to the line of the product, or a
\* new line is appended
AddToPosCart(product, q) ==
    /\ \A i \in DOMAIN posCart :
          posCart[i].id = product.id => posCart[i].quantity + q <= MaxPosQty
    /\ posCart' =
          IF \E i \in DOMAIN posCart : posCart[i].id = product.id
          THEN [i \in DOMAIN posCart |->
                   IF posCart[i].id = product.id
                   THEN [posCart[i] EXCEPT !.quantity = @ + q]
                   ELSE posCart[i]]
          ELSE Append(posCart, [id |-> product.id, price |-> product.price, quantity |-> q])
    /\ PosCalled("addToPosCart", product.id, q)
    /\ UNCHANGED <<cartVars, view, authToken, cacheVars, reads, returned, formVars, profile>>

RemoveFromPosCart(id) ==
    /\ posCart' = SelectSeq(posCart, LAMBDA l : l.id # id)
    /\ PosCalled("removeFromPosCart", id, 0)
    /\ UNCHANGED <<cartVars, view, authToken, cacheVars, reads, returned, formVars, profile>>

UpdatePosCartQuantity(id, q) ==
    /\ posCart' =
          IF q <= 0
          THEN SelectSeq(posCart, LAMBDA l : l.id # id)
          ELSE [i \in DOMAIN posCart |->
                   IF posCart[i].id = id THEN [posCart[i] EXCEPT !.quantity = q]
                                         ELSE posCart[i]]
    /\ PosCalled("updatePosCartQuantity", id, q)
    /\ UNCHANGED <<cartVars, view, authToken, cacheVars, reads, returned, formVars, profile>>

ClearPosCart ==
    /\ posCart' = <<>>
    /\ PosCalled("clearPosCart", "", 0)
    /\ UNCHANGED <<cartVars, view, authToken, cacheVars, reads, returned, formVars, profile>>

\* ------------------------------------------------------- the Profile page
\* what the Profile page leaves alone apart from the session
ProfileFrame ==
    UNCHANGED <<legacyKey, serverCart, nextItemId, ops, calls, cacheVars,
                reads, returned, formVars, posCart, posCall>>

KeepSession == UNCHANGED <<currentUser, userInfo, cart, persisted, view, authToken>>

\* the page is opened: a new component with isLoading true and no orders
OpenProfile ==
    /\ profile.route # "/profile"
    /\ profile' = [ProfileClosed EXCEPT !.route = "/profile"]
    /\ KeepSession /\ ProfileFrame

\* mutant: the effect does not look for the token
ProfileEffectNoToken ==
    /\ profile.route = "/profile" /\ profile.seen # currentUser
    /\ profile' =
          IF currentUser # "customer"
          THEN [profile EXCEPT !.route = "/auth", !.seen = currentUser]
          ELSE [profile EXCEPT !.seen = currentUser, !.isLoading = TRUE,
                               !.sent = @ + 1, !.pending = @ + 1]
    /\ KeepSession /\ ProfileFrame

\* the effect of the page, run after mounting and when currentUser has
\* changed: the guard, then loadOrders up to its await
ProfileEffect ==
    /\ profile.route = "/profile" /\ profile.seen # currentUser
    /\ profile' =
          IF currentUser # "customer" \/ ~authToken
          THEN [profile EXCEPT !.route = "/auth", !.seen = currentUser]
          ELSE [profile EXCEPT !.seen = currentUser, !.isLoading = TRUE,
                               !.sent = @ + 1, !.pending = @ + 1]
    /\ KeepSession /\ ProfileFrame

\* getMyOrders has been answered with data, or has failed
LoadOrdersResp(ok, shape, data) ==
    /\ profile.route = "/profile" /\ profile.pending > 0
    /\ profile' = [profile EXCEPT
                      !.pending = @ - 1,
                      !.isLoading = FALSE,
                      !.answer = IF ok THEN shape ELSE "fail",
                      !.orders = IF ~ok THEN @
                                 ELSE IF shape = "array" THEN data ELSE <<>>]
    /\ KeepSession /\ ProfileFrame

\* handleLogout: logout(), then navigate("/")
HandleLogout ==
    /\ profile.route = "/profile"
    /\ currentUser' = NoUser
    /\ userInfo' = NoUser
    /\ cart' = <<>>
    /\ persisted' = [currentUser |-> NoUser, userInfo |-> NoUser, cart |-> <<>>]
    /\ view' = IndexView(NoUser)
    /\ authToken' = FALSE
    /\ profile' = [profile EXCEPT !.route = "/"]
    /\ ProfileFrame

\* --------------------------------------------------------------- checkout
\* mutant: the session check of checkout is missing
CheckoutUnchecked(o) ==
    /\ Dispatch(o)
    /\ ops' = [InFlight EXCEPT ![o] =
                  CallSyncAlways(NewOp("checkout", "", 0, 0), "cosync")]
    /\ KeepStore
    /\ UNCHANGED <<legacyKey, serverCart, nextItemId>>

\* up to the await of the resync, or to the throw without a session
Checkout(o) ==
    /\ Dispatch(o)
    /\ LET op == NewOp("checkout", "", 0, 0) IN
       ops' = [InFlight EXCEPT ![o] =
                  IF currentUser = NoUser
                  THEN Finish(op, "error")
                  ELSE CallSync(op, "cosync")]
    /\ KeepStore
    /\ UNCHANGED <<legacyKey, serverCart, nextItemId>>

\* the resync of checkout has been answered: the mirror is replaced on
\* success; an empty mirror throws, otherwise the checkout request is sent
CosyncResp(o) ==
    /\ ops[o].pc = "cosync" /\ ops[o].net \in {"ok", "fail"}
    /\ LET op == [ops[o] EXCEPT !.fetched = ops[o].net, !.resp = <<>>]
           c == IF ops[o].net = "ok" THEN FrontendCart(ops[o].resp) ELSE cart
       IN /\ SetCart(c)
          /\ ops' = [ops EXCEPT ![o] =
                        IF Len(c) = 0
                        THEN Finish(op, "error")
                        ELSE [op EXCEPT !.pc = "checkout", !.net = "req",
                                        !.log = Append(@, <<"checkout">>)]]
    /\ UNCHANGED <<legacyKey, serverCart, nextItemId, calls>>

\* mutant: checkout empties the mirror once the order is placed
CheckoutRespClears(o) ==
    /\ ops[o].pc = "checkout" /\ ops[o].net \in {"ok", "fail"}
    /\ IF ops[o].net = "ok" THEN SetCart(<<>>) ELSE KeepStore
    /\ ops' = [ops EXCEPT ![o] =
                  Finish(ops[o], IF ops[o].net = "ok" THEN "ok" ELSE "error")]
    /\ UNCHANGED <<legacyKey, serverCart, nextItemId, calls>>

\* the checkout request has been answered: the confirmation is returned or
\* the error rethrown; the mirror is left to the checkout page
CheckoutResp(o) ==
    /\ ops[o].pc = "checkout" /\ ops[o].net \in {"ok", "fail"}
    /\ ops' = [ops EXCEPT ![o] =
                  Finish(ops[o], IF ops[o].net = "ok" THEN "ok" ELSE "error")]
    /\ KeepStore
    /\ UNCHANGED <<legacyKey, serverCart, nextItemId, calls>>

\* ------------------------------------------------ the store's reads
\* what the server may answer to the read requests
ProductLists == {<<>>, <<1>>, <<1, 2>>}
ResponseShapes == {"array", "page", "other"}
CategoryLists == {<<>>, <<1>>}
StatsValues == {"stats1", "stats2"}
OrderLists == {<<>>, <<7>>}
OrderPages ==
    {[content |-> <<>>, totalPages |-> 0, number |-> 0],
     [content |-> <<7>>, totalPages |-> 2, number |-> 1]}

\* convertProductToUI, by the fields the model follows
ConvertProductToUI(p) == [id |-> ToStr(p), price |-> PriceOf(p)]

ConvertProductsToUI(ps) == [i \in DOMAIN ps |-> ConvertProductToUI(ps[i])]

ConvertCategoriesToUI(cs) == [i \in DOMAIN cs |-> [id |-> ToStr(cs[i])]]

\* the request fetchProducts makes: filterProducts for an admin with filters
ProductsApi(filters) ==
    IF currentUser = "admin" /\ filters THEN "filterProducts" ELSE "getProducts"

\* fetchProducts succeeds when the request does and the answer is an array
\* or a page with a content array
ProductsOk(ok, shape) == ok /\ shape \in {"array", "page"}

\* the products fetchProducts sets: the converted answer, or the empty array
\* of its catch block
ProductsAfter(ok, shape, ps) ==
    IF ProductsOk(ok, shape) THEN ConvertProductsToUI(ps) ELSE <<>>

\* the read operation name has ended, successfully or not
Ended(name, ok) == reads' = [name |-> name, ok |-> ok, n |-> 1 - reads.n]

\* The read handlers set nothing before their await, so each is one step
\* from the answer of its request on.
FetchProducts(filters, ok, shape, ps) ==
    /\ products' = ProductsAfter(ok, shape, ps)
    /\ Ended(ProductsApi(filters), ProductsOk(ok, shape))
    /\ UNCHANGED <<categories, dashboardStats, recentOrders, topProducts,
                   allOrders, ordersTotalPages, ordersCurrentPage>>
    /\ UNCHANGED <<cartVars, view, authToken, deskVars, returned, formVars>>

FetchCategories(ok, cs) ==
    /\ categories' = IF ok THEN ConvertCategoriesToUI(cs) ELSE <<>>
    /\ Ended("getCategories", ok)
    /\ UNCHANGED <<products, dashboardStats, recentOrders, topProducts,
                   allOrders, ordersTotalPages, ordersCurrentPage>>
    /\ UNCHANGED <<cartVars, view, authToken, deskVars, returned, formVars>>

FetchDashboardStats(ok, stats) ==
    /\ dashboardStats' = IF ok THEN stats ELSE dashboardStats
    /\ Ended("getDashboardStats", ok)
    /\ UNCHANGED <<products, categories, recentOrders, topProducts,
                   allOrders, ordersTotalPages, ordersCurrentPage>>
    /\ UNCHANGED <<cartVars, view, authToken, deskVars, returned, formVars>>

FetchRecentOrders(ok, orders) ==
    /\ recentOrders' = IF ok THEN orders ELSE recentOrders
    /\ Ended("getRecentOrders", ok)
    /\ UNCHANGED <<products, categories, dashboardStats, topProducts,
                   allOrders, ordersTotalPages, ordersCurrentPage>>
    /\ UNCHANGED <<cartVars, view, authToken, deskVars, returned, formVars>>

FetchTopProducts(ok, ps) ==
    /\ topProducts' = IF ok THEN ps ELSE topProducts
    /\ Ended("getTopSellingProducts", ok)
    /\ UNCHANGED <<products, categories, dashboardStats, recentOrders,
                   allOrders, ordersTotalPages, ordersCurrentPage>>
    /\ UNCHANGED <<cartVars, view, authToken, deskVars, returned, formVars>>

FetchAllOrders(ok, response) ==
    /\ allOrders' = IF ok THEN response.content ELSE allOrders
    /\ ordersTotalPages' = IF ok THEN response.totalPages ELSE ordersTotalPages
    /\ ordersCurrentPage' = IF ok THEN response.number ELSE ordersCurrentPage
    /\ Ended("getAllOrders", ok)
    /\ UNCHANGED <<products, categories, dashboardStats, recentOrders, topProducts>>
    /\ UNCHANGED <<cartVars, view, authToken, deskVars, returned, formVars>>

\* ------------------------------------------------------------ getCartTotal
\* item.extraPrice || 0: extraPrice is an optional field of CartItem
ExtraOf(item) == IF "extraPrice" \in DOMAIN item THEN item.extraPrice ELSE 0

\* mutant: the extra price is left out of the total
LineAmountBase(item) == item.price * item.quantity

\* basePrice + extraPrice of the reduce callback
LineAmount(item) == item.price * item.quantity + ExtraOf(item) * item.quantity

RECURSIVE Reduce(_, _)
\* cart.reduce((total, item) => total + basePrice + extraPrice, total)
Reduce(c, total) ==
    IF c = <<>> THEN total ELSE Reduce(Tail(c), total + LineAmount(Head(c)))

GetCartTotal(c) == Reduce(c, 0)

\* a call of getCartTotal: it reads the cart and returns the total
GetCartTotalCall ==
    /\ returned' = GetCartTotal(cart)
    /\ UNCHANGED <<cartVars, view, authToken, deskVars, cacheVars, reads, formVars>>

\* ------------------------------------- ProductManagementTable, ProductCard
\* what the admin may type into the product form
FormInputs ==
    [name : {"", "Teddy"}, description : {"", "Soft"},
     price : {-1, 0, 10}, stockQuantity : {-1, 0, 3}]

\* the personalization options of the dialog
OptionKeys == {"ribbon"}

\* setNewProduct from the inputs of the form
SetNewProduct(np) ==
    /\ newProduct' = np
    /\ UNCHANGED <<selectedImage, details, page>>
    /\ UNCHANGED <<cartVars, view, authToken, deskVars, cacheVars, reads, returned>>

\* setSelectedImage: an image file is chosen or removed
SelectImage(b) ==
    /\ selectedImage' = b
    /\ UNCHANGED <<newProduct, details, page>>
    /\ UNCHANGED <<cartVars, view, authToken, deskVars, cacheVars, reads, returned>>

\* setDetails: an option of the personalization dialog is chosen
ChooseOption(k) ==
    /\ details' = details \cup {k}
    /\ UNCHANGED <<newProduct, selectedImage, page>>
    /\ UNCHANGED <<cartVars, view, authToken, deskVars, cacheVars, reads, returned>>

\* the record of a handler that starts; one handler run is followed at a time
Started(h) == [IdlePage EXCEPT !.handler = h, !.n = 1 - page.n]

\* mutant: only the name is validated
InvalidNameOnly(np) == np.name = ""

\* the validation of handleAddProduct
Invalid(np) ==
    np.name = "" \/ np.description = "" \/ np.price <= 0 \/ np.stockQuantity < 0

\* handleAddProduct up to its first await: the validation, then the image
\* upload if an image is selected, else createProduct
HandleAddProduct ==
    /\ page.pc = "idle"
    /\ page' = IF Invalid(newProduct)
               THEN [Started("handleAddProduct") EXCEPT !.result = "invalid"]
               ELSE IF selectedImage
               THEN [Started("handleAddProduct") EXCEPT
                        !.pc = "upload", !.log = <<"uploadImage">>,
                        !.isSubmitting = TRUE]
               ELSE [Started("handleAddProduct") EXCEPT
                        !.pc = "create", !.log = <<"createProduct">>,
                        !.isSubmitting = TRUE]
    /\ UNCHANGED <<newProduct, selectedImage, details>>
    /\ UNCHANGED <<cartVars, view, authToken, deskVars, cacheVars, reads, returned>>

\* mutant: the url that uploadImage returned is not tested
UploadRespIgnoresNull(ok) ==
    /\ page.pc = "upload"
    /\ page' = [page EXCEPT !.pc = "create", !.log = Append(@, "createProduct"),
                            !.uploadedUrl = IF ok THEN "url" ELSE "null"]
    /\ UNCHANGED <<newProduct, selectedImage, details>>
    /\ UNCHANGED <<cartVars, view, authToken, deskVars, cacheVars, reads, returned>>

\* uploadImage has returned a url, or null after a failure; with null the
\* handler returns through its finally block
UploadResp(ok) ==
    /\ page.pc = "upload"
    /\ page' = IF ok
               THEN [page EXCEPT !.pc = "create", !.log = Append(@, "createProduct"),
                                 !.uploadedUrl = "url"]
               ELSE [page EXCEPT !.pc = "idle", !.result = "error",
                                 !.uploadedUrl = "null", !.isSubmitting = FALSE]
    /\ UNCHANGED <<newProduct, selectedImage, details>>
    /\ UNCHANGED <<cartVars, view, authToken, deskVars, cacheVars, reads, returned>>

\* createProduct has been answered: on success the form is reset and the
\* product list refreshed
CreateResp(ok) ==
    /\ page.pc = "create"
    /\ IF ok
       THEN /\ newProduct' = EmptyProduct
            /\ selectedImage' = FALSE
            /\ page' = [page EXCEPT !.pc = "refresh", !.log = Append(@, "fetchProducts")]
       ELSE /\ page' = [page EXCEPT !.pc = "idle", !.result = "error",
                                    !.isSubmitting = FALSE]
            /\ UNCHANGED <<newProduct, selectedImage>>
    /\ UNCHANGED details
    /\ UNCHANGED <<cartVars, view, authToken, deskVars, cacheVars, reads, returned>>

\* the fetchProducts() that ends handleAddProduct has ended
RefreshResp(ok, shape, ps) ==
    /\ page.pc = "refresh"
    /\ page' = [page EXCEPT !.pc = "idle", !.result = "ok", !.isSubmitting = FALSE]
    /\ products' = ProductsAfter(ok, shape, ps)
    /\ Ended(ProductsApi(FALSE), ProductsOk(ok, shape))
    /\ UNCHANGED <<categories, dashboardStats, recentOrders, topProducts,
                   allOrders, ordersTotalPages, ordersCurrentPage>>
    /\ UNCHANGED <<newProduct, selectedImage, details>>
    /\ UNCHANGED <<cartVars, view, authToken, deskVars, returned>>

\* handlePersonalizedAdd up to its await: without a chosen option it alerts
\* and returns, otherwise it calls addToCart
HandlePersonalizedAdd ==
    /\ page.pc = "idle"
    /\ page' = IF details = {}
               THEN [Started("handlePersonalizedAdd") EXCEPT !.result = "invalid"]
               ELSE [Started("handlePersonalizedAdd") EXCEPT
                        !.pc = "adding", !.log = <<"addToCart">>]
    /\ UNCHANGED <<newProduct, selectedImage, details>>
    /\ UNCHANGED <<cartVars, view, authToken, deskVars, cacheVars, reads, returned>>

\* addToCart has resolved (the dialog is reset) or thrown (an alert)
PersonalizedAddDone(ok) ==
    /\ page.pc = "adding"
    /\ page' = [page EXCEPT !.pc = "idle", !.result = IF ok THEN "ok" ELSE "error"]
    /\ details' = IF ok THEN {} ELSE details
    /\ UNCHANGED <<newProduct, selectedImage>>
    /\ UNCHANGED <<cartVars, view, authToken, deskVars, cacheVars, reads, returned>>

\* ------------------------------------------------- the server's handlers
Answer(o, res) == ops' = [ops EXCEPT ![o].net = res]

ServerFail(o) ==
    /\ ops[o].net = "req"
    /\ Answer(o, "fail")
    /\ KeepStore
    /\ UNCHANGED <<legacyKey, serverCart, nextItemId, calls>>

ServerGet(o) ==
    /\ ops[o].pc \in {"presync", "sync", "cosync"} /\ ops[o].net = "req"
    /\ ops' = [ops EXCEPT ![o].net = "ok", ![o].resp = serverCart]
    /\ KeepStore
    /\ UNCHANGED <<legacyKey, serverCart, nextItemId, calls>>

\* the server stores an added item as a line of its own
ServerAddNew(o) ==
    /\ ops[o].pc = "add" /\ ops[o].net = "req"
    /\ nextItemId <= MaxItemId
    /\ serverCart' = Append(serverCart,
                            ServerLine(nextItemId, ParseInt(ops[o].pid),
                                       ops[o].qty, ops[o].extra))
    /\ nextItemId' = nextItemId + 1
    /\ ops' = [ops EXCEPT ![o].net = "ok",
                          ![o].fresh = \A i \in DOMAIN serverCart :
                                          serverCart[i].productId # ParseInt(ops[o].pid)]
    /\ KeepStore
    /\ UNCHANGED <<legacyKey, calls>>

\* the server merges an added item into a line of the same product and
\* personalization
ServerAddMerge(o) ==
    /\ ops[o].pc = "add" /\ ops[o].net = "req"
    /\ \E i \in DOMAIN serverCart :
          /\ serverCart[i].productId = ParseInt(ops[o].pid)
          /\ serverCart[i].extraPrice = ops[o].extra
          /\ serverCart[i].quantity + ops[o].qty <= MaxQty
          /\ serverCart' = ServerSetQuantity(serverCart, serverCart[i].itemId,
                                             serverCart[i].quantity + ops[o].qty)
    /\ Answer(o, "ok")
    /\ KeepStore
    /\ UNCHANGED <<legacyKey, nextItemId, calls>>

ServerRemoveItem(o) ==
    /\ ops[o].pc = "mut" /\ ops[o].net = "req" /\ ops[o].kind = "remove"
    /\ serverCart' = ServerRemove(serverCart, ops[o].bid)
    /\ Answer(o, "ok")
    /\ KeepStore
    /\ UNCHANGED <<legacyKey, nextItemId, calls>>

\* updateCartItem: a quantity of 0 is stored as it is or taken as a removal
ServerUpdateItem(o) ==
    /\ ops[o].pc = "mut" /\ ops[o].net = "req" /\ ops[o].kind = "update"
    /\ ServerFind(serverCart, ops[o].bid) # 0
    /\ \/ serverCart' = ServerSetQuantity(serverCart, ops[o].bid, ops[o].qty)
       \/ ops[o].qty <= 0 /\ serverCart' = ServerRemove(serverCart, ops[o].bid)
    /\ Answer(o, "ok")
    /\ KeepStore
    /\ UNCHANGED <<legacyKey, nextItemId, calls>>

ServerClear(o) ==
    /\ ops[o].pc = "clear" /\ ops[o].net = "req"
    /\ serverCart' = <<>>
    /\ Answer(o, "ok")
    /\ KeepStore
    /\ UNCHANGED <<legacyKey, nextItemId, calls>>

\* the server places the order and empties its cart
ServerCheckout(o) ==
    /\ ops[o].pc = "checkout" /\ ops[o].net = "req"
    /\ serverCart' = <<>>
    /\ Answer(o, "ok")
    /\ KeepStore
    /\ UNCHANGED <<legacyKey, nextItemId, calls>>

\* the server answers login / register with the user's role
ServerAuth(o, role) ==
    /\ ops[o].pc = "auth" /\ ops[o].net = "req"
    /\ ops' = [ops EXCEPT ![o].net = "ok", ![o].resp = <<role>>]
    /\ KeepStore
    /\ UNCHANGED <<legacyKey, serverCart, nextItemId, calls>>

\* ---------------------------------------------------------- specification
IdStrings == {ToStr(p) : p \in ProductIds}

Next ==
    \/ \E r \in Roles : Login(r)
    \/ Logout
    \/ \E o \in Slots, p \in ProductIds, q \in AddQuantities, e \in Extras : AddToCart(o, p, q, e)
    \/ \E o \in Slots, id \in IdStrings : RemoveFromCart(o, id)
    \/ \E o \in Slots, id \in IdStrings, q \in NewQuantities : UpdateCartQuantity(o, id, q)
    \/ \E o \in Slots, k \in {"sync", "forceSync"} : SyncCartWithBackend(o, k)
    \/ \E o \in Slots : ClearCart(o)
    \/ \E o \in Slots : AddResp(o)
    \/ \E o \in Slots : Settled(o)
    \/ \E o \in Slots : SyncResp(o)
    \/ \E o \in Slots : PresyncResp(o)
    \/ \E o \in Slots : MutResp(o)
    \/ \E o \in Slots : ClearResp(o)
    \/ \E o \in Slots : ServerFail(o)
    \/ \E o \in Slots : ServerGet(o)
    \/ \E o \in Slots : ServerAddNew(o)
    \/ \E o \in Slots : ServerAddMerge(o)
    \/ \E o \in Slots : ServerRemoveItem(o)
    \/ \E o \in Slots : ServerUpdateItem(o)
    \/ \E o \in Slots : ServerClear(o)

Spec == Init /\ [][Next]_vars

\* login and register from the call to the answer, with logout
NextAuth ==
    \/ \E o \in Slots, k \in {"login", "register"} : LoginCall(o, k)
    \/ \E o \in Slots : AuthResp(o)
    \/ \E o \in Slots, role \in ServerRoles \cup {NoRole} : ServerAuth(o, role)
    \/ \E o \in Slots : ServerFail(o)
    \/ Logout

SpecAuth == Init /\ [][NextAuth]_vars

\* checkout, with the session changes and the server around it
NextCheckout ==
    \/ \E r \in Roles : Login(r)
    \/ Logout
    \/ \E o \in Slots : Checkout(o)
    \/ \E o \in Slots : CosyncResp(o)
    \/ \E o \in Slots : CheckoutResp(o)
    \/ \E o \in Slots : ServerFail(o)
    \/ \E o \in Slots : ServerGet(o)
    \/ \E o \in Slots : ServerCheckout(o)

SpecCheckout == Init /\ [][NextCheckout]_vars

\* the store and the components as they are created, for a customer, an
\* admin or no session, with an empty cart
InitPages ==
    /\ currentUser \in {NoUser, "customer", "admin"}
    /\ userInfo = currentUser
    /\ cart = <<>>
    /\ persisted = [currentUser |-> currentUser, userInfo |-> userInfo, cart |-> cart]
    /\ legacyKey = "absent"
    /\ serverCart = <<>>
    /\ nextItemId = 1
    /\ ops = [o \in Slots |-> IdleOp]
    /\ calls = 0
    /\ view = IndexView(currentUser)
    /\ PagesInit

\* the read operations of the store, called in any order
NextReads ==
    \/ \E filters, ok \in BOOLEAN, shape \in ResponseShapes, ps \in ProductLists :
          FetchProducts(filters, ok, shape, ps)
    \/ \E ok \in BOOLEAN, cs \in CategoryLists : FetchCategories(ok, cs)
    \/ \E ok \in BOOLEAN, stats \in StatsValues : FetchDashboardStats(ok, stats)
    \/ \E ok \in BOOLEAN, orders \in OrderLists : FetchRecentOrders(ok, orders)
    \/ \E ok \in BOOLEAN, ps \in OrderLists : FetchTopProducts(ok, ps)
    \/ \E ok \in BOOLEAN, response \in OrderPages : FetchAllOrders(ok, response)

SpecReads == InitPages /\ [][NextReads]_vars

\* the carts getCartTotal is applied to: up to MaxLines lines, with or
\* without an extraPrice
TotalLines ==
    [id : IdStrings, price : {PriceOf(p) : p \in ProductIds}, quantity : AddQuantities]
    \cup [id : {"1"}, price : {PriceOf(1)}, quantity : AddQuantities, extraPrice : Extras]

RECURSIVE SeqsUpTo(_, _)
SeqsUpTo(S, n) ==
    IF n = 0 THEN {<<>>}
    ELSE SeqsUpTo(S, n - 1) \cup {Append(c, l) : c \in SeqsUpTo(S, n - 1), l \in S}

InitTotal ==
    /\ currentUser = "customer"
    /\ userInfo = currentUser
    /\ cart \in SeqsUpTo(TotalLines, MaxLines)
    /\ persisted = [currentUser |-> currentUser, userInfo |-> userInfo, cart |-> cart]
    /\ legacyKey = "absent"
    /\ serverCart = <<>>
    /\ nextItemId = 1
    /\ ops = [o \in Slots |-> IdleOp]
    /\ calls = 0
    /\ view = IndexView(currentUser)
    /\ PagesInit

NextTotal == GetCartTotalCall

SpecTotal == InitTotal /\ [][NextTotal]_vars

\* the product form and the personalization dialog
NextForms ==
    \/ \E np \in FormInputs : SetNewProduct(np)
    \/ \E b \in BOOLEAN : SelectImage(b)
    \/ \E k \in OptionKeys : ChooseOption(k)
    \/ HandleAddProduct
    \/ \E ok \in BOOLEAN : UploadResp(ok)
    \/ \E ok \in BOOLEAN : CreateResp(ok)
    \/ \E ok \in BOOLEAN, shape \in ResponseShapes, ps \in ProductLists :
          RefreshResp(ok, shape, ps)
    \/ HandlePersonalizedAdd
    \/ \E ok \in BOOLEAN : PersonalizedAddDone(ok)

\* the Profile page opened with any session, with or without a token
InitProfile ==
    /\ currentUser \in Roles \cup {NoUser}
    /\ userInfo = currentUser
    /\ cart = <<>>
    /\ persisted = [currentUser |-> currentUser, userInfo |-> userInfo, cart |-> cart]
    /\ legacyKey = "absent"
    /\ serverCart = <<>>
    /\ nextItemId = 1
    /\ ops = [o \in Slots |-> IdleOp]
    /\ calls = 0
    /\ view = IndexView(currentUser)
    /\ ComponentsInit
    /\ authToken \in BOOLEAN
    /\ profile = [ProfileClosed EXCEPT !.route = "/profile"]

\* the Profile page, with logins on the way back to it
NextProfile ==
    \/ OpenProfile
    \/ ProfileEffect
    \/ \E ok \in BOOLEAN, shape \in ResponseShapes, data \in OrderLists :
          LoadOrdersResp(ok, shape, data)
    \/ HandleLogout
    \/ \E r \in Roles : profile.route # "/profile" /\ Login(r)

SpecProfile == InitProfile /\ [][NextProfile]_vars

\* the point-of-sale cart
NextPos ==
    \/ \E product \in PosProducts, q \in AddQuantities : AddToPosCart(product, q)
    \/ \E id \in PosIds : RemoveFromPosCart(id)
    \/ \E id \in PosIds, q \in -1..MaxPosQty : UpdatePosCartQuantity(id, q)
    \/ ClearPosCart

SpecPos == InitPages /\ [][NextPos]_vars

SpecForms == InitPages /\ [][NextForms]_vars

\* every request a handler awaits is answered or fails: the awaited
\* promises of handleAddProduct settle
SpecFormsFair ==
    /\ SpecForms
    /\ WF_vars(\E ok \in BOOLEAN : UploadResp(ok))
    /\ WF_vars(\E ok \in BOOLEAN : CreateResp(ok))
    /\ WF_vars(\E ok \in BOOLEAN, shape \in ResponseShapes, ps \in ProductLists :
                  RefreshResp(ok, shape, ps))

TypeOK ==
    /\ currentUser \in Roles \cup {NoUser}
    /\ persisted = [currentUser |-> currentUser, userInfo |-> userInfo, cart |-> cart]
    /\ Len(serverCart) <= MaxItemId
    /\ calls \in 0..MaxCalls

\* ------------------------------------------------------ claims: helpers
SyncKinds == {"sync", "forceSync"}

\* slot o takes a newly dispatched operation in this step
Dispatched(o) == calls' # calls /\ ~Active(o) /\ ops'[o].pc # "idle"

\* the operation in slot o resolves (or throws) in this step
Completes(o) == ops'[o].pc = "done" /\ (ops[o].pc # "done" \/ calls' # calls)

\* the operation in flight in slot o handles the answer to its request
Handles(o, stage) ==
    ops[o].pc = stage /\ ops[o].net \in {"ok", "fail"} /\ ops'[o].pc # stage

\* mirror c holds one line per line of backend cart bc, in the same order,
\* with the same product, quantity and line id
Mirrors(c, bc) ==
    /\ Len(c) = Len(bc)
    /\ \A i \in DOMAIN bc :
          /\ c[i].id = ToStr(bc[i].productId)
          /\ c[i].quantity = bc[i].quantity
          /\ c[i].backendId = bc[i].itemId

\* the lines of mirror c for product id
LinesOf(c, id) == {i \in DOMAIN c : c[i].id = id}

\* the server calls that change one cart line
IsLineCall(r) == r[1] \in {"removeFromCart", "updateCartItem"}

\* -------------------------------------------------------------------- C1
\* C1: whenever a resync (the closing one of addToCart, removeFromCart or
\* updateCartQuantity, the resolving one, or a direct call) handles a
\* successful getCartItems answer, the mirror it leaves is exactly the
\* fetched server cart: one line per server line, same product id, quantity
\* and backendId = itemId, and nothing else.
C1_MirrorIsServerCart ==
    [][\A o \in Slots :
          (\/ Handles(o, "sync")
           \/ Handles(o, "presync")) /\ ops[o].net = "ok"
          => Mirrors(cart', ops[o].resp)]_vars

\* C1 witness: a removeFromCart has resolved after a successful closing
\* resync and the mirror is the server's remaining line
C1_Witness ==
    \E o \in Slots :
        /\ ops[o].pc = "done" /\ ops[o].kind = "remove" /\ ops[o].fetched = "ok"
        /\ Sent(ops[o], "removeFromCart") # {}
        /\ Len(cart) = 1 /\ Mirrors(cart, serverCart)

\* -------------------------------------------------------------------- C2
\* C2 as stated: every finished syncCartWithBackend / forceSyncCart call has
\* issued a fetch and replaced the mirror by the fetched cart.
C2_ResyncUnconditional ==
    \A o \in Slots :
        ops[o].pc = "done" /\ ops[o].kind \in SyncKinds
        => Sent(ops[o], "getCartItems") # {} /\ ops[o].fetched = "ok"

\* C2 amended: a syncCartWithBackend / forceSyncCart call made with a session
\* issues one getCartItems request and, when it is answered successfully,
\* ends with the mirror replaced wholesale by the fetched cart; a call made
\* without a session issues no request, and without a session or after a
\* failed fetch the mirror is left as it was.
C2_ResyncWithSession ==
    [][\A o \in Slots :
          /\ Dispatched(o) /\ ops'[o].kind \in SyncKinds
             => /\ cart' = cart
                /\ ops'[o].syncs = 1
                /\ IF currentUser = NoUser
                   THEN ops'[o].pc = "done" /\ ops'[o].log = <<>>
                   ELSE /\ ops'[o].pc = "sync" /\ ops'[o].net = "req"
                        /\ ops'[o].log = <<<<"getCartItems">>>>
          /\ Handles(o, "sync") /\ ops[o].kind \in SyncKinds
             => /\ ops'[o].pc = "done" /\ ops'[o].result = "ok"
                /\ IF ops[o].net = "ok"
                   THEN Mirrors(cart', ops[o].resp)
                   ELSE cart' = cart]_vars

\* C2 witness: a direct resync has replaced a mirror line the server did not
\* confirm by the server's empty cart
C2_Witness ==
    \E o \in Slots :
        /\ ops[o].pc = "done" /\ ops[o].kind = "forceSync" /\ ops[o].fetched = "ok"
        /\ calls = 1 /\ cart = <<>> /\ serverCart = <<>>

\* -------------------------------------------------------------------- C3
\* C3: when clearCart resolves, with or without a session and whether the
\* server's clearCart succeeded or failed, the mirror is empty, the
\* persisted snapshot's cart is empty and no error is thrown.
C3_ClearAlwaysEmpties ==
    [][\A o \in Slots :
          Completes(o) /\ ops'[o].kind = "clear"
          => /\ cart' = <<>>
             /\ persisted'.cart = <<>>
             /\ ops'[o].result = "ok"]_vars

\* C3 witness: clearCart has resolved after the server call failed: the
\* server still holds a line, the mirror and the snapshot are empty
C3_Witness ==
    \E o \in Slots :
        /\ ops[o].pc = "done" /\ ops[o].kind = "clear"
        /\ ops[o].log = <<<<"clearCart">>>>
        /\ calls = 1 /\ serverCart # <<>>
        /\ cart = <<>> /\ persisted.cart = <<>>

\* -------------------------------------------------------------------- C4
\* C4: a removeFromCart called with a session for a mirror line without
\* backendId calls syncCartWithBackend first; when it sends removeFromCart to
\* the server, exactly one resync (one getCartItems request) precedes the
\* request, and the line looked up after that resync has the backendId the
\* request names.
C4_OneResyncBeforeRemove ==
    [][\A o \in Slots :
          ops'[o].kind = "remove" /\ ops'[o].lacked
          => /\ ops'[o].syncs >= 1
             /\ ops'[o].log # <<>> /\ ops'[o].log[1] = <<"getCartItems">>
             /\ Sent(ops'[o], "removeFromCart") \subseteq {2}
             /\ (Sent(ops'[o], "removeFromCart") # {} /\ Sent(ops[o], "removeFromCart") = {}
                 => /\ ops[o].syncs = 1 /\ ops'[o].syncs = 1
                    /\ ops[o].log = <<<<"getCartItems">>>>
                    /\ ops'[o].bid # 0
                    /\ ops'[o].log[2] = <<"removeFromCart", ops'[o].bid>>
                    /\ LinesOf(cart', ops'[o].pid) # {}
                    /\ \A i \in LinesOf(cart', ops'[o].pid) :
                          (\A j \in LinesOf(cart', ops'[o].pid) : i <= j)
                          => cart'[i].backendId = ops'[o].bid)]_vars

\* C4 witness: the resync of such a removeFromCart has resolved the
\* backendId and the remove request is on its way
C4_Witness ==
    \E o \in Slots :
        /\ ops[o].kind = "remove" /\ ops[o].lacked
        /\ ops[o].pc = "mut" /\ ops[o].net = "req"
        /\ ops[o].log = <<<<"getCartItems">>, <<"removeFromCart", 1>>>>

\* -------------------------------------------------------------------- C5
\* C5: whenever removeFromCart or updateCartItem is sent to the server, the
\* mirror holds at that moment a line of the product with a backendId, and
\* the request names that backendId; an operation whose line has no
\* backendId after the resolving resync ends without any such request, the
\* server cart untouched.
C5_ServerCallNeedsBackendId ==
    [][\A o \in Slots :
          /\ (/\ Len(ops'[o].log) = Len(ops[o].log) + 1 \/ Dispatched(o)
              /\ ops'[o].log # <<>>
              /\ IsLineCall(ops'[o].log[Len(ops'[o].log)]))
             => LET r == ops'[o].log[Len(ops'[o].log)] IN
                /\ r[2] # 0
                /\ \E i \in DOMAIN cart' :
                      cart'[i].id = ops'[o].pid /\ cart'[i].backendId = r[2]
          /\ (/\ Handles(o, "presync")
              /\ \A i \in DOMAIN cart' :
                    cart'[i].id = ops[o].pid => cart'[i].backendId = 0)
             => /\ ops'[o].pc = "done"
                /\ \A i \in DOMAIN ops'[o].log : ~IsLineCall(ops'[o].log[i])
                /\ serverCart' = serverCart]_vars

\* C5 witness: the resolving resync failed, the line was removed from the
\* mirror only and the server still holds its cart
C5_Witness ==
    \E o \in Slots :
        /\ ops[o].pc = "done" /\ ops[o].kind \in {"remove", "update"}
        /\ ops[o].lacked /\ ops[o].local /\ ops[o].fetched = "fail"
        /\ ops[o].log = <<<<"getCartItems">>>>
        /\ calls = 1 /\ cart = <<>> /\ serverCart # <<>>

\* -------------------------------------------------------------------- C6
\* C6: when the server's removeFromCart fails for a removeFromCart called
\* with a session, the operation resolves without an error and the mirror
\* holds no line of that product; the server cart is as it was.
C6_RemoveFallsBackLocally ==
    [][\A o \in Slots :
          Handles(o, "mut") /\ ops[o].kind = "remove" /\ ops[o].net = "fail"
          => /\ ops'[o].pc = "done" /\ ops'[o].result = "ok"
             /\ LinesOf(cart', ops[o].pid) = {}
             /\ serverCart' = serverCart]_vars

\* C6 witness: the backendId was known, the server call failed, the line is
\* gone from the mirror and still in the server cart
C6_Witness ==
    \E o \in Slots :
        /\ ops[o].pc = "done" /\ ops[o].kind = "remove" /\ ops[o].result = "ok"
        /\ ~ops[o].lacked /\ ops[o].local
        /\ ops[o].log = <<<<"removeFromCart", ops[o].bid>>>>
        /\ LinesOf(cart, ops[o].pid) = {}
        /\ \E i \in DOMAIN serverCart :
              /\ serverCart[i].itemId = ops[o].bid
              /\ ToStr(serverCart[i].productId) = ops[o].pid

\* -------------------------------------------------------------------- C7
\* C7: when the server's updateCartItem fails for updateCartQuantity(id, q)
\* called with a session, the operation resolves without an error and only
\* the mirror changes: for q > 0 every line of id gets quantity q and
\* nothing else of it changes, for q <= 0 the lines of id are removed, and
\* the lines of other products stay as they were, in their order.
C7_UpdateFallsBackLocally ==
    [][\A o \in Slots :
          Handles(o, "mut") /\ ops[o].kind = "update" /\ ops[o].net = "fail"
          => /\ ops'[o].pc = "done" /\ ops'[o].result = "ok"
             /\ serverCart' = serverCart
             /\ IF ops[o].qty > 0
                THEN /\ Len(cart') = Len(cart)
                     /\ \A i \in DOMAIN cart :
                           cart'[i] = IF cart[i].id = ops[o].pid
                                      THEN [cart[i] EXCEPT !.quantity = ops[o].qty]
                                      ELSE cart[i]
                ELSE /\ LinesOf(cart', ops[o].pid) = {}
                     /\ cart' = SelectSeq(cart, LAMBDA l : l.id # ops[o].pid)]_vars

\* C7 witness: a failed update to a quantity > 0 has been applied to the
\* mirror line, whose quantity now differs from the server's
C7_Witness ==
    \E o \in Slots :
        /\ ops[o].pc = "done" /\ ops[o].kind = "update" /\ ops[o].result = "ok"
        /\ ops[o].local /\ ops[o].qty > 0
        /\ ops[o].log = <<<<"updateCartItem", ops[o].bid, ops[o].qty>>>>
        /\ \E i \in DOMAIN cart, j \in DOMAIN serverCart :
              /\ cart[i].id = ops[o].pid /\ cart[i].backendId = ops[o].bid
              /\ cart[i].quantity = ops[o].qty
              /\ serverCart[j].itemId = ops[o].bid
              /\ serverCart[j].quantity # ops[o].qty

\* -------------------------------------------------------------------- C8
\* C8 as stated, for the server call: the server call updateCartQuantity(id, 0)
\* makes is the one removeFromCart(id) makes, removeFromCart(backendId).
C8_ZeroUpdateIsRemove ==
    \A o \in Slots :
        ops[o].kind = "update" /\ ops[o].qty <= 0
        => \A i \in DOMAIN ops[o].log :
              IsLineCall(ops[o].log[i])
              => ops[o].log[i] = <<"removeFromCart", ops[o].bid>>

\* -------------------------------------------------------------------- C9
\* C9: addToCart called without a session throws, sends no request and
\* leaves the mirror, its snapshot and the server cart as they were.
C9_AddRequiresSession ==
    [][\A o \in Slots :
          Dispatched(o) /\ ops'[o].kind = "add" /\ currentUser = NoUser
          => /\ ops'[o].pc = "done" /\ ops'[o].result = "error"
             /\ ops'[o].log = <<>>
             /\ cart' = cart /\ persisted' = persisted
             /\ serverCart' = serverCart]_vars

\* C9 witness: an addToCart without a session has thrown
C9_Witness ==
    \E o \in Slots :
        /\ ops[o].pc = "done" /\ ops[o].kind = "add" /\ ops[o].result = "error"
        /\ ops[o].log = <<>> /\ currentUser = NoUser

\* ------------------------------------------------------------------- C10
\* the mirror holds exactly one line of product id, of quantity q and with a
\* backendId
OneLine(c, id, q) ==
    /\ Cardinality(LinesOf(c, id)) = 1
    /\ \A i \in LinesOf(c, id) : c[i].quantity = q /\ c[i].backendId # 0

\* C10 as stated: whenever an addToCart(product, 2) that the server accepted
\* resolves, the mirror holds exactly one line of the product, with
\* quantity 2 and a backendId.
C10_AcceptedAddGivesOneLine ==
    [][\A o \in Slots :
          /\ Completes(o) /\ ops'[o].kind = "add"
          /\ ops'[o].result = "ok" /\ ops'[o].qty = 2
          => OneLine(cart', ops'[o].pid, 2)]_vars

\* C10 amended: when an addToCart(product, 2) is accepted by a server that
\* held no line of the product, nothing else is dispatched while it is in
\* flight and the fetch of its resync succeeds, then the mirror holds exactly
\* one line of the product, with quantity 2 and a backendId, when it resolves.
C10_FreshAddGivesOneLine ==
    [][\A o \in Slots :
          /\ Completes(o) /\ ops'[o].kind = "add"
          /\ ops'[o].result = "ok" /\ ops'[o].qty = 2
          /\ ops'[o].fetched = "ok" /\ ops'[o].fresh /\ ops'[o].alone
          => OneLine(cart', ops'[o].pid, 2)]_vars

\* C10 witness: such an addToCart has resolved and its line is in the mirror
C10_Witness ==
    \E o \in Slots :
        /\ ops[o].pc = "done" /\ ops[o].kind = "add" /\ ops[o].result = "ok"
        /\ ops[o].qty = 2 /\ ops[o].fetched = "ok" /\ ops[o].fresh /\ ops[o].alone
        /\ ops[o].log = <<<<"addToCart", ParseInt(ops[o].pid), 2>>, <<"getCartItems">>>>
        /\ OneLine(cart, ops[o].pid, 2)

\* ------------------------------------------------------------------- C11
\* C11 as stated: every finished addToCart that sent its add request has
\* fetched the server cart and replaced the mirror by it, whatever the server
\* answered to the add request.
C11_AddAlwaysResyncs ==
    \A o \in Slots :
        ops[o].pc = "done" /\ ops[o].kind = "add" /\ Sent(ops[o], "addToCart") # {}
        => Sent(ops[o], "getCartItems") # {} /\ ops[o].fetched = "ok"

\* C11 amended: for an authenticated addToCart, a failed add request is
\* rethrown to the caller at once, with no resync and the mirror untouched;
\* a successful one is followed, after the settling delay and before
\* addToCart resolves, by one call of syncCartWithBackend, which with the
\* session still present fetches the server cart and replaces the mirror when
\* the fetch succeeds (a failed fetch leaves the mirror as it was).
C11_ResyncAfterAcceptedAdd ==
    [][\A o \in Slots :
          /\ Handles(o, "add")
             => /\ cart' = cart
                /\ IF ops[o].net = "fail"
                   THEN /\ ops'[o].pc = "done" /\ ops'[o].result = "error"
                        /\ ops'[o].syncs = 0 /\ ops'[o].log = ops[o].log
                   ELSE ops'[o].pc = "settle"
          /\ ops[o].kind = "add" /\ ops[o].pc = "settle" /\ ops'[o].pc # "settle"
             => /\ cart' = cart
                /\ ops'[o].syncs = 1
                /\ IF currentUser = NoUser
                   THEN ops'[o].pc = "done" /\ ops'[o].log = ops[o].log
                   ELSE /\ ops'[o].pc = "sync" /\ ops'[o].net = "req"
                        /\ ops'[o].log = Append(ops[o].log, <<"getCartItems">>)
          /\ Handles(o, "sync") /\ ops[o].kind = "add"
             => /\ ops'[o].pc = "done" /\ ops'[o].result = "ok"
                /\ IF ops[o].net = "ok"
                   THEN Mirrors(cart', ops[o].resp)
                   ELSE cart' = cart
          /\ Completes(o) /\ ops'[o].kind = "add" /\ ops'[o].result = "ok"
             => ops'[o].syncs = 1]_vars

\* C11 witness: the add request of an authenticated addToCart failed and
\* addToCart has thrown without any resync
C11_Witness ==
    \E o \in Slots :
        /\ ops[o].pc = "done" /\ ops[o].kind = "add" /\ ops[o].result = "error"
        /\ currentUser # NoUser
        /\ Len(ops[o].log) = 1 /\ Sent(ops[o], "addToCart") = {1}
        /\ ops[o].syncs = 0

\* ------------------------------------------------------------------- C12
\* the line total the claim gives for addToCart(product id, q, extra e)
ClaimedTotal(id, q, e) == (PriceOf(ParseInt(id)) + e) * q

\* the cases the claim names: quantity 1 without personalization, or a
\* personalization of non-zero extra cost
TotalCase(op) == (op.qty = 1 /\ op.extra = 0) \/ op.extra # 0

C13_FinalResyncRestores ==
    (\A o \in Slots :
        /\ ops[o].pc = "done" /\ ops[o].kind \in {"add", "remove", "update"}
        /\ ~ops[o].alone
        /\ ops[o].result = "ok" /\ ~ops[o].local /\ ops[o].fetched = "ok")
    => Mirrors(cart, serverCart)

\* ------------------------------------------------------------------- C14
\* the step is a call of logout
LoggedOut ==
    /\ calls' # calls /\ currentUser' = NoUser
    /\ \A o \in Slots : ~Dispatched(o)

\* C14: when logout returns, currentUser and userInfo are null, the cart
\* mirror is empty and the persisted snapshot holds the same three values.
C14_LogoutLeavesNothing ==
    [][LoggedOut
       => /\ currentUser' = NoUser /\ userInfo' = NoUser /\ cart' = <<>>
          /\ persisted' = [currentUser |-> NoUser, userInfo |-> NoUser,
                           cart |-> <<>>]]_vars

\* C14 witness: logout was called while an addToCart dispatched with the
\* session was in flight; session, mirror and snapshot are empty
C14_Witness ==
    /\ currentUser = NoUser /\ userInfo = NoUser /\ cart = <<>>
    /\ persisted.currentUser = NoUser /\ persisted.cart = <<>>
    /\ calls = 2
    /\ \E o \in Slots :
          /\ ops[o].kind = "add" /\ ops[o].pc = "add"
          /\ Sent(ops[o], "addToCart") # {}

\* ------------------------------------------------------------------- C15
\* C15: checkout called without a session throws and sends no request;
\* called with a session it first requests the server cart, and when the
\* mirror is empty after that resync it throws without sending the checkout
\* request, which otherwise follows the resync; a failed checkout request
\* is rethrown to the caller.
C15_CheckoutGuards ==
    [][\A o \in Slots :
          /\ Dispatched(o) /\ ops'[o].kind = "checkout"
             => /\ cart' = cart
                /\ IF currentUser = NoUser
                   THEN /\ ops'[o].pc = "done" /\ ops'[o].result = "error"
                        /\ ops'[o].log = <<>>
                   ELSE /\ ops'[o].pc = "cosync" /\ ops'[o].net = "req"
                        /\ ops'[o].log = <<<<"getCartItems">>>>
          /\ Handles(o, "cosync")
             => IF cart' = <<>>
                THEN /\ ops'[o].pc = "done" /\ ops'[o].result = "error"
                     /\ ops'[o].log = <<<<"getCartItems">>>>
                ELSE /\ ops'[o].pc = "checkout" /\ ops'[o].net = "req"
                     /\ ops'[o].log = <<<<"getCartItems">>, <<"checkout">>>>
          /\ Handles(o, "checkout") /\ ops[o].net = "fail"
             => ops'[o].pc = "done" /\ ops'[o].result = "error"]_vars

\* C15 witness: a checkout with a session has thrown after its resync left
\* the mirror empty, the checkout request unsent
C15_Witness ==
    \E o \in Slots :
        /\ ops[o].pc = "done" /\ ops[o].kind = "checkout" /\ ops[o].result = "error"
        /\ ops[o].fetched = "ok" /\ ops[o].log = <<<<"getCartItems">>>>
        /\ currentUser # NoUser /\ cart = <<>>

\* ------------------------------------------------------------------- C16
\* C16 as stated: whenever checkout resolves successfully, the mirror
\* contains no lines.
C16_CheckoutEmptiesCart ==
    [][\A o \in Slots :
          Completes(o) /\ ops'[o].kind = "checkout" /\ ops'[o].result = "ok"
          => cart' = <<>>]_vars

\* C16 amended: the store's checkout leaves the mirror and its snapshot as
\* they are when the checkout request is answered; with nothing else
\* dispatched while it is in flight, the mirror still holds the lines that
\* were checked out when checkout resolves successfully.
C16_CheckoutKeepsCart ==
    [][\A o \in Slots :
          /\ Handles(o, "checkout")
             => cart' = cart /\ persisted' = persisted
          /\ (/\ Completes(o) /\ ops'[o].kind = "checkout"
              /\ ops'[o].result = "ok" /\ ops'[o].alone)
             => cart' # <<>>]_vars

\* C16 witness: checkout has resolved successfully, the server has emptied
\* its cart and the mirror still holds the line
C16_Witness ==
    \E o \in Slots :
        /\ ops[o].pc = "done" /\ ops[o].kind = "checkout" /\ ops[o].result = "ok"
        /\ ops[o].log = <<<<"getCartItems">>, <<"checkout">>>>
        /\ serverCart = <<>> /\ cart # <<>>

\* ------------------------------------------------------------------- C17
\* C17 as stated: whenever a read operation of the store ends in failure,
\* products, categories, dashboardStats, recentOrders, topProducts, allOrders
\* and the paging fields are all as they were before the call.
C17_FailedReadKeepsCache ==
    [][reads' # reads /\ ~reads'.ok => UNCHANGED cacheVars]_vars

\* ------------------------------------------------------------------- C18
RECURSIVE LinesSum(_, _)
\* the sum over the first n lines of c of (price + extraPrice) * quantity,
\* a missing extraPrice counted as 0
LinesSum(c, n) ==
    IF n = 0 THEN 0
    ELSE LinesSum(c, n - 1)
         + (c[n].price + (IF "extraPrice" \in DOMAIN c[n] THEN c[n].extraPrice ELSE 0))
           * c[n].quantity

\* C18: getCartTotal returns the sum over all lines of the mirror of
\* (price + extraPrice) * quantity, a missing extraPrice counted as 0 and an
\* empty cart giving 0, and the call changes nothing of the store.
C18_TotalIsSumOfLines ==
    [][returned' # returned
       => /\ returned' = LinesSum(cart, Len(cart))
          /\ cart = <<>> => returned' = 0
          /\ UNCHANGED <<cartVars, cacheVars>>]_vars

\* C18 witness: getCartTotal has returned 50 for a line of quantity 2 with an
\* extra price of 5 followed by a line of quantity 1 without extraPrice
C18_Witness ==
    /\ returned = 50 /\ Len(cart) = 2
    /\ "extraPrice" \in DOMAIN cart[1] /\ "extraPrice" \notin DOMAIN cart[2]
    /\ cart[1].extraPrice = 5 /\ cart[1].quantity = 2 /\ cart[1].price = 10
    /\ cart[2].price = 20 /\ cart[2].quantity = 1

\* ------------------------------------------------------------------- C19
\* C19: a handleAddProduct started with an empty name or description, a
\* price <= 0 or a stock quantity < 0 returns without requesting the image
\* upload or createProduct and leaves the form as it is; a
\* handlePersonalizedAdd started with no option chosen returns without
\* calling addToCart.
C19_InvalidInputBlocks ==
    [][/\ (/\ page'.n # page.n /\ page'.handler = "handleAddProduct"
           /\ \/ newProduct.name = "" \/ newProduct.description = ""
              \/ newProduct.price <= 0 \/ newProduct.stockQuantity < 0)
          => /\ page'.pc = "idle" /\ page'.log = <<>> /\ page'.result = "invalid"
             /\ UNCHANGED <<newProduct, selectedImage, products>>
       /\ (/\ page'.n # page.n /\ page'.handler = "handlePersonalizedAdd"
           /\ details = {})
          => /\ page'.pc = "idle" /\ page'.log = <<>> /\ page'.result = "invalid"
             /\ UNCHANGED <<details, cartVars>>]_vars

\* C19 witness: handleAddProduct has returned on a form with name,
\* description, an image selected and a price of 0, with no call made
C19_Witness ==
    /\ page.handler = "handleAddProduct" /\ page.result = "invalid"
    /\ page.pc = "idle" /\ page.log = <<>>
    /\ newProduct.name # "" /\ newProduct.description # ""
    /\ newProduct.price = 0 /\ newProduct.stockQuantity >= 0
    /\ selectedImage

\* ------------------------------------------------------------------- C20
\* C20: the home page shows the admin dashboard exactly when currentUser is
\* 'admin', the point-of-sale view exactly when it is 'cashier' and the
\* storefront in every other case, before and after every login and logout.
C20_ViewFollowsRole ==
    /\ view = "AdminDashboard" <=> currentUser = "admin"
    /\ view = "POSSystem" <=> currentUser = "cashier"
    /\ view = "storefront" <=> currentUser \notin {"admin", "cashier"}

\* C20 witness: a customer session has been replaced by a cashier's login
\* and the home page shows the point-of-sale view
C20_Witness ==
    /\ currentUser = "cashier" /\ view = "POSSystem"
    /\ calls = 1 /\ cart # <<>>

\* ------------------------------------------------------------------- C21
\* every line of the mirror c has a backendId
AllBacked(c) == \A i \in DOMAIN c : c[i].backendId # 0

\* C21: no step of the store's operations puts a line without backendId
\* into a mirror whose lines all have one; the empty mirror is such a
\* mirror, so every mirror reached from it has a backendId on every line.
C21_EveryLineHasBackendId ==
    [][AllBacked(cart) => AllBacked(cart')]_vars

\* C21 witness: two addToCart calls have resolved and the mirror holds
\* two lines, each with the server's line id
C21_Witness ==
    /\ Len(cart) = 2 /\ Mirrors(cart, serverCart)
    /\ \A i \in DOMAIN cart : cart[i].backendId # 0
    /\ \A o \in Slots : ops[o].pc = "done" /\ ops[o].kind = "add"

\* ------------------------------------------------------------------- C22
\* C22 as stated: whenever removeFromCart(id) resolves, the mirror contains
\* no line with that id.
C22_RemovedLineIsGone ==
    [][\A o \in Slots :
          Completes(o) /\ ops'[o].kind = "remove"
          => LinesOf(cart', ops'[o].pid) = {}]_vars

\* ------------------------------------------------------------------- C23
\* C23 as stated: whenever there is no session, the cart mirror is empty.
C23_NoSessionNoCart == currentUser = NoUser => cart = <<>>

\* ------------------------------------------------------------------- C24
\* C24 as stated: when the server call of removeFromCart or
\* updateCartQuantity fails, every mirror line other than the targeted one
\* (the line whose backendId the request named) is still in the mirror,
\* unchanged, after the local fallback.
C24_FallbackTouchesOneLine ==
    [][\A o \in Slots :
          Handles(o, "mut") /\ ops[o].net = "fail"
          => \A i \in DOMAIN cart :
                cart[i].backendId # ops[o].bid
                => \E j \in DOMAIN cart' : cart'[j] = cart[i]]_vars

\* ------------------------------------------------------------------- C25
\* C25 as stated: every line of the mirror has
\* totalPrice = (price + extraPrice) * quantity.
C25_LineTotalsConsistent ==
    \A i \in DOMAIN cart :
        cart[i].totalPrice = (cart[i].price + cart[i].extraPrice) * cart[i].quantity

\* ------------------------------------------------------------------- C26
\* C26: removeFromCart(id) and updateCartQuantity(id, q) called with a
\* session for an id that no mirror line has resolve at once, having called
\* no resync and sent no request, and the mirror, its snapshot and the server
\* cart are as before.
C26_MissingLineNoRequest ==
    [][\A o \in Slots :
          /\ Dispatched(o) /\ ops'[o].kind \in {"remove", "update"}
          /\ currentUser # NoUser
          /\ \A i \in DOMAIN cart : cart[i].id # ops'[o].pid
          => /\ ops'[o].pc = "done" /\ ops'[o].result = "ok"
             /\ ops'[o].log = <<>> /\ ops'[o].syncs = 0
             /\ cart' = cart /\ persisted' = persisted
             /\ serverCart' = serverCart]_vars

\* C26 witness: an updateCartQuantity for a product that is not in the
\* mirror has resolved without a request, the mirror's line of the other
\* product in place
C26_Witness ==
    \E o \in Slots :
        /\ ops[o].pc = "done" /\ ops[o].kind = "update" /\ ops[o].pid = "2"
        /\ ops[o].log = <<>> /\ ops[o].syncs = 0
        /\ currentUser # NoUser /\ calls = 1
        /\ Len(cart) = 1 /\ cart[1].id = "1"

\* ------------------------------------------------------------------- C27
\* C27: when the request of login or register fails, the error is rethrown
\* and currentUser, userInfo and the cart are unchanged; when it is answered
\* with a role, currentUser becomes the lower-cased role, one of customer,
\* admin and cashier, and the cart is unchanged.
C27_SessionOnlyOnSuccess ==
    [][\A o \in Slots :
          Handles(o, "auth")
          => /\ ops'[o].pc = "done" /\ cart' = cart
             /\ ops[o].net = "fail"
                => /\ ops'[o].result = "error"
                   /\ currentUser' = currentUser /\ userInfo' = userInfo
                   /\ persisted' = persisted
             /\ ops[o].net = "ok" /\ ops[o].resp[1] \in ServerRoles
                => /\ ops'[o].result = "ok"
                   /\ currentUser' \in Roles
                   /\ \/ currentUser' = "customer" /\ ops[o].resp[1] = "CUSTOMER"
                      \/ currentUser' = "admin" /\ ops[o].resp[1] = "Admin"
                      \/ currentUser' = "cashier" /\ ops[o].resp[1] = "cashier"]_vars

\* C27 witness: a customer's login as another user has failed: the error
\* is thrown, the customer session and its cart line are in place
C27_Witness ==
    \E o \in Slots :
        /\ ops[o].pc = "done" /\ ops[o].kind = "login" /\ ops[o].result = "error"
        /\ ops[o].log = <<<<"login">>>> /\ calls = 1
        /\ currentUser = "customer" /\ userInfo = "customer" /\ cart # <<>>

\* ------------------------------------------------------------------- C28
\* the step is a call of the point-of-sale operation name
PosStep(name) == posCall'.n # posCall.n /\ posCall'.name = name

\* the quantity of the point-of-sale line of product id, 0 when there is none
PosQuantity(pc, id) ==
    IF \E i \in DOMAIN pc : pc[i].id = id
    THEN (pc[CHOOSE i \in DOMAIN pc : pc[i].id = id]).quantity
    ELSE 0

\* C28: the point-of-sale cart holds at most one line per product id and
\* every line has a quantity >= 1; addToPosCart of a product that has a line
\* adds to its quantity, updatePosCartQuantity to a quantity <= 0 removes the
\* line, and no point-of-sale operation changes the customer cart mirror.
C28_PosCartWellFormed ==
    /\ [](/\ \A i, j \in DOMAIN posCart : posCart[i].id = posCart[j].id => i = j
          /\ \A i \in DOMAIN posCart : posCart[i].quantity >= 1)
    /\ [][/\ posCall' # posCall => cart' = cart /\ persisted' = persisted
          /\ PosStep("addToPosCart")
             => /\ PosQuantity(posCart', posCall'.id)
                      = PosQuantity(posCart, posCall'.id) + posCall'.qty
                /\ Len(posCart') = IF PosQuantity(posCart, posCall'.id) = 0
                                   THEN Len(posCart) + 1 ELSE Len(posCart)
          /\ PosStep("updatePosCartQuantity") /\ posCall'.qty <= 0
             => PosQuantity(posCart', posCall'.id) = 0
          /\ PosStep("updatePosCartQuantity") /\ posCall'.qty > 0
             => /\ Len(posCart') = Len(posCart)
                /\ PosQuantity(posCart, posCall'.id) # 0
                   => PosQuantity(posCart', posCall'.id) = posCall'.qty
          /\ PosStep("removeFromPosCart")
             => PosQuantity(posCart', posCall'.id) = 0
          /\ PosStep("clearPosCart") => posCart' = <<>>]_vars

\* C28 witness: a product has been added twice and holds one line of
\* quantity 3 next to the line of another product
C28_Witness ==
    /\ Len(posCart) = 2
    /\ posCart[1].id = "1" /\ posCart[1].quantity = 3
    /\ posCart[2].id = "2"
    /\ posCall.name = "addToPosCart" /\ posCall.id = "1" /\ posCall.qty = 2

EffectRuns == profile.route = "/profile" /\ profile'.seen \notin {profile.seen, "-"}

\* C30: the Profile page requests the order history only when currentUser
\* is customer and a token is stored; in every other case its effect
\* redirects to /auth and sends no request; and when the request is
\* answered, also by a failure or a non-array, isLoading ends false.
C30_OrdersOnlyForCustomerWithToken ==
    [][/\ profile'.sent > profile.sent
          => /\ currentUser = "customer" /\ authToken
             /\ profile.route = "/profile" /\ profile'.route = "/profile"
       /\ EffectRuns
          => IF currentUser = "customer" /\ authToken
             THEN /\ profile'.sent = profile.sent + 1 /\ profile'.isLoading
                  /\ profile'.route = "/profile"
             ELSE /\ profile'.route = "/auth"
                  /\ profile'.sent = profile.sent
                  /\ profile'.pending = profile.pending
       /\ profile.route = "/profile" /\ profile'.pending < profile.pending
          => /\ ~profile'.isLoading
             /\ profile'.answer = "fail" => profile'.orders = profile.orders
             /\ profile'.answer \in {"page", "other"} => profile'.orders = <<>>]_vars

\* C30 witness: a customer session without a stored token has opened the
\* page: it was redirected to /auth and no request was sent
C30_Witness ==
    /\ currentUser = "customer" /\ ~authToken
    /\ profile.route = "/auth" /\ profile.seen = "customer"
    /\ profile.sent = 0 /\ profile.pending = 0

====
